---- MODULE Spec2Model ----
(***************************************************************************)
(* The round engine of SHOOT OUT! (src/game.js): the round state machine,  *)
(* its flags and score counters, and the setTimeout callbacks it           *)
(* schedules.  Time is in whole milliseconds (setTimeout truncates its     *)
(* delay to an integer); every pending timer carries the time left until   *)
(* it is due, and waitUntil holds the time left until the cue may open     *)
(* (performance.now() itself is not kept, only differences to it are).     *)
(***************************************************************************)
EXTENDS Integers, FiniteSets, Sequences, TLC

VARIABLES
    state,        \* State.WAIT / CUE / DEAD / PAUSE
    pausedFrom,   \* state remembered by the Escape toggle
    streak, score, best,
    waitUntil,    \* ms left until performance.now() >= waitUntil
    cueMode,      \* cue drawn for the round
    opp,          \* index into OPP of the round's opponent profile
    playerShot, enemyShot, early, late, timeoutLoss,
    timers,       \* pending setTimeout callbacks: [kind, left, gen]
    HARDCORE,     \* ?hardcore=1
    cueParam,     \* ?cue=...
    keyHeld,      \* a fire key (Space or Enter) is physically held down
    pressActed,   \* history: a keydown of the current key press changed the engine
    resolved,     \* history: calls of resolve() since the last beginRound (0..2)
    opened,       \* history: calls of openCue() since the last beginRound (0..2)
    lastOp        \* history: the handler that ran last (a frame that opens no cue
                  \* leaves no trace)

vars == << state, pausedFrom, streak, score, best, waitUntil, cueMode, opp,
           playerShot, enemyShot, early, late, timeoutLoss, timers,
           HARDCORE, cueParam, keyHeld, pressActed, resolved, opened, lastOp >>

flags == << playerShot, enemyShot, early, late, timeoutLoss >>

config == << HARDCORE, cueParam >>

----------------------------------------------------------------------------
(* Bounds of the exploration *)

\* wins explored in one run (streak and score are unbounded in the code)
MaxStreak == 2

\* largest best score found in localStorage at startup
MaxBest == 1

\* r01() is sampled at k / RSteps, k in 0 .. RSteps-1
RSteps == 4

\* longest winning run a round of TimingSpec starts from
MaxRun == 16

\* time advances to the next due timer, or by StepMs when that is further away
StepMs == 400

----------------------------------------------------------------------------
(* Program constants and pure functions *)

Max(a, b) == IF a >= b THEN a ELSE b

Min(a, b) == IF a <= b THEN a ELSE b

State == [WAIT |-> "wait", CUE |-> "cue", DEAD |-> "dead", PAUSE |-> "pause"]

\* OPP table, 0-based as in the source
OPP == << [speedBias |-> 0,   jitter |-> 70],
          [speedBias |-> -10, jitter |-> 60],
          [speedBias |-> -18, jitter |-> 52],
          [speedBias |-> -26, jitter |-> 44],
          [speedBias |-> -34, jitter |-> 36] >>

OppAt(i) == OPP[i + 1]

\* the values r01() may return, as numerators over RSteps
R01 == 0 .. (RSteps - 1)

\* rRange(a, b) = a + (b - a) * r01(), for the draw k / RSteps, in whole ms
rRange(a, b, k) == a + ((b - a) * k) \div RSteps

\* a slip in waitDelayMs: the draw is not offset by min
waitDelayMsFromZero(t, k) ==
    LET min == Max(320, 820 - t * 18)
        max == Max(min + 250, 2300 - t * 32)
    IN  rRange(0, max - min, k)

\* oppProfile(t): the draw k bumps the tier when k / RSteps < 0.25
oppProfile(t, k) ==
    LET idx == Min(Len(OPP) - 1, t \div 3)
    IN  IF k * 4 < RSteps /\ idx + 1 < Len(OPP) THEN idx + 1 ELSE idx

\* a slip in reactionWindowMs: the floor is missing
reactionWindowMsNoFloor(t) == 220 - t * 10

reactionWindowMs(t) == Max(85, 220 - t * 10)

enemyBaseReactionMs(t, o) == Max(32, 170 - t * 12 + OppAt(o).speedBias)

waitDelayMs(t, k) ==
    LET min == Max(320, 820 - t * 18)
        max == Max(min + 250, 2300 - t * 32)
    IN  rRange(min, max, k)

cueModes == {"text", "bell", "glyph", "none"}

\* chooseCueMode(): roll = k / RSteps
chooseCueMode(hc, cp, k) ==
    IF hc THEN "none"
    ELSE IF cp = "rotate"
         THEN IF k * 100 < 48 * RSteps THEN "text"
              ELSE IF k * 100 < 78 * RSteps THEN "glyph"
              ELSE IF k * 100 < 94 * RSteps THEN "bell"
              ELSE "none"
         ELSE IF cp \in cueModes THEN cp ELSE "text"

\* delay of setTimeout(beginRound, 620)
WinDelayMs == 620

\* the URL parameters explored: ?hardcore and ?cue ("bogus" stands for any
\* value of ?cue= that is none of the five known ones)
Configs == { << FALSE, "rotate" >>, << FALSE, "glyph" >>, << FALSE, "bogus" >>,
             << TRUE, "rotate" >> }

----------------------------------------------------------------------------
(* Timers *)

Timer(kind, left) == [kind |-> kind, left |-> left, gen |-> 0]

\* beginRound starts a new round: every timer still pending now belongs to an
\* earlier round (history field gen; the code keeps no such mark)
Aged(T) == { [tm EXCEPT !.gen = 1] : tm \in T }

KindRank(kind) == CASE kind = "enemy" -> 0 [] kind = "window" -> 1 [] OTHER -> 2

\* a was registered by setTimeout before b
Before(a, b) ==
    \/ a.gen > b.gen
    \/ a.gen = b.gen /\ KindRank(a.kind) < KindRank(b.kind)

\* timers due at the same instant run in the order they were registered
Due(tm) ==
    /\ tm \in timers
    /\ tm.left = 0
    /\ \A o \in timers : o.left = 0 => ~Before(o, tm)

----------------------------------------------------------------------------
(* The engine *)

\* a slip in resetFlags: early is left as it was
resetFlagsKeepsEarly ==
    /\ playerShot' = FALSE /\ enemyShot' = FALSE
    /\ UNCHANGED early /\ late' = FALSE /\ timeoutLoss' = FALSE

resetFlags ==
    /\ playerShot' = FALSE /\ enemyShot' = FALSE
    /\ early' = FALSE /\ late' = FALSE /\ timeoutLoss' = FALSE

\* beginRound(), run with streak = t and the pending timers T
beginRound(t, T) ==
    /\ resetFlags
    /\ state' = State.WAIT
    /\ opp' \in { oppProfile(t, k) : k \in R01 }
    /\ cueMode' \in { chooseCueMode(HARDCORE, cueParam, k) : k \in R01 }
    /\ waitUntil' \in { waitDelayMs(t, k) : k \in R01 }
    /\ timers' = Aged(T)
    /\ resolved' = 0
    /\ opened' = 0

\* a slip in the win test: early is not looked at
WinIgnoresEarly(ps, es, e, l, tl) == ps /\ ~l /\ ~tl /\ ~es

\* the win test of resolve()
Win(ps, es, e, l, tl) == ps /\ ~e /\ ~l /\ ~tl /\ ~es

\* a slip in resolve: a win increments streak but not score
resolveNoScore(ps, es, e, l, tl, T) ==
    /\ resolved' = Min(2, resolved + 1)
    /\ IF Win(ps, es, e, l, tl)
       THEN /\ streak < MaxStreak
            /\ streak' = streak + 1
            /\ timers' = T \cup {Timer("begin", WinDelayMs)}
            /\ UNCHANGED << state, best, score >>
       ELSE /\ best' = Max(best, score)
            /\ state' = State.DEAD
            /\ timers' = T
            /\ UNCHANGED << streak, score >>

\* a slip in resolve: a loss stores the score as best without taking the maximum
resolveBestIsScore(ps, es, e, l, tl, T) ==
    /\ resolved' = Min(2, resolved + 1)
    /\ IF Win(ps, es, e, l, tl)
       THEN /\ streak < MaxStreak
            /\ streak' = streak + 1
            /\ score' = score + 1
            /\ timers' = T \cup {Timer("begin", WinDelayMs)}
            /\ UNCHANGED << state, best >>
       ELSE /\ best' = score
            /\ state' = State.DEAD
            /\ timers' = T
            /\ UNCHANGED << streak, score >>

\* resolve(), run with the flags as just set by the caller and the pending timers T
resolve(ps, es, e, l, tl, T) ==
    /\ resolved' = Min(2, resolved + 1)
    /\ IF Win(ps, es, e, l, tl)
       THEN /\ streak < MaxStreak
            /\ streak' = streak + 1
            /\ score' = score + 1
            /\ timers' = T \cup {Timer("begin", WinDelayMs)}
            /\ UNCHANGED << state, best >>
       ELSE /\ best' = Max(best, score)
            /\ state' = State.DEAD
            /\ timers' = T
            /\ UNCHANGED << streak, score >>

\* openCue()
openCue ==
    /\ state' = State.CUE
    /\ opened' = Min(2, opened + 1)
    /\ \E k \in R01 :
          timers' = timers \cup
              { Timer("enemy", enemyBaseReactionMs(streak, opp)
                                 + rRange(0, OppAt(opp).jitter, k)),
                Timer("window", reactionWindowMs(streak)) }

\* a slip in handleFire: the playerShot test of the CUE branch is missing
handleFireNoDoubleGuard ==
    /\ UNCHANGED << config, pausedFrom >>
    /\ IF state = State.DEAD
       THEN /\ streak' = 0
            /\ score' = 0
            /\ beginRound(0, timers)
            /\ UNCHANGED best
       ELSE IF state = State.PAUSE
       THEN UNCHANGED << state, streak, score, best, waitUntil, cueMode, opp,
                         flags, timers, resolved, opened >>
       ELSE IF state = State.WAIT
       THEN /\ playerShot' = TRUE
            /\ early' = TRUE
            /\ resolve(TRUE, enemyShot, TRUE, late, timeoutLoss, timers)
            /\ UNCHANGED << enemyShot, late, timeoutLoss, waitUntil, cueMode, opp,
                            opened >>
       ELSE /\ playerShot' = TRUE
            /\ late' = (IF enemyShot THEN TRUE ELSE late)
            /\ resolve(TRUE, enemyShot, early, late', timeoutLoss, timers)
            /\ UNCHANGED << enemyShot, early, timeoutLoss, waitUntil, cueMode, opp,
                            opened >>

\* a slip in handleFire: the restart from DEAD resets streak only
handleFireKeepsScore ==
    /\ UNCHANGED << config, pausedFrom >>
    /\ IF state = State.DEAD
       THEN /\ streak' = 0
            /\ beginRound(0, timers)
            /\ UNCHANGED << best, score >>
       ELSE IF state = State.PAUSE
       THEN UNCHANGED << state, streak, score, best, waitUntil, cueMode, opp,
                         flags, timers, resolved, opened >>
       ELSE IF state = State.WAIT
       THEN /\ playerShot' = TRUE
            /\ early' = TRUE
            /\ resolve(TRUE, enemyShot, TRUE, late, timeoutLoss, timers)
            /\ UNCHANGED << enemyShot, late, timeoutLoss, waitUntil, cueMode, opp,
                            opened >>
       ELSE IF playerShot
       THEN UNCHANGED << state, streak, score, best, waitUntil, cueMode, opp,
                         flags, timers, resolved, opened >>
       ELSE /\ playerShot' = TRUE
            /\ late' = (IF enemyShot THEN TRUE ELSE late)
            /\ resolve(TRUE, enemyShot, early, late', timeoutLoss, timers)
            /\ UNCHANGED << enemyShot, early, timeoutLoss, waitUntil, cueMode, opp,
                            opened >>

\* handleFire()
handleFire ==
    /\ UNCHANGED << config, pausedFrom >>
    /\ IF state = State.DEAD
       THEN /\ streak' = 0
            /\ score' = 0
            /\ beginRound(0, timers)
            /\ UNCHANGED best
       ELSE IF state = State.PAUSE
       THEN UNCHANGED << state, streak, score, best, waitUntil, cueMode, opp,
                         flags, timers, resolved, opened >>
       ELSE IF state = State.WAIT
       THEN /\ playerShot' = TRUE
            /\ early' = TRUE
            /\ resolve(TRUE, enemyShot, TRUE, late, timeoutLoss, timers)
            /\ UNCHANGED << enemyShot, late, timeoutLoss, waitUntil, cueMode, opp,
                            opened >>
       ELSE IF playerShot
       THEN UNCHANGED << state, streak, score, best, waitUntil, cueMode, opp,
                         flags, timers, resolved, opened >>
       ELSE /\ playerShot' = TRUE
            /\ late' = (IF enemyShot THEN TRUE ELSE late)
            /\ resolve(TRUE, enemyShot, early, late', timeoutLoss, timers)
            /\ UNCHANGED << enemyShot, early, timeoutLoss, waitUntil, cueMode, opp,
                            opened >>

\* handleFire returns without doing anything
FireIgnored == state = State.PAUSE \/ (state = State.CUE /\ playerShot)

\* touchstart (which calls preventDefault, so that the browser emulates no mouse
\* events for the touch) or mousedown
PointerDown ==
    /\ lastOp' = "fire"
    /\ UNCHANGED << keyHeld, pressActed >>
    /\ handleFire

\* keydown of Space or Enter: the first event of a press, or one of the repeated
\* events the browser delivers while the key stays down
KeyDown ==
    /\ lastOp' = (IF keyHeld THEN "repeat" ELSE "fire")
    /\ keyHeld' = TRUE
    /\ pressActed' = ((keyHeld /\ pressActed) \/ ~FireIgnored)
    /\ handleFire

\* the held fire key is released (no listener)
KeyUp ==
    /\ keyHeld
    /\ keyHeld' = FALSE
    /\ pressActed' = FALSE
    /\ lastOp' = "keyup"
    /\ UNCHANGED << state, pausedFrom, streak, score, best, waitUntil, cueMode,
                    opp, flags, timers, config, resolved, opened >>

\* keydown Escape
Escape ==
    /\ lastOp' = "escape"
    /\ IF state = State.PAUSE
       THEN state' = pausedFrom /\ UNCHANGED pausedFrom
       ELSE pausedFrom' = state /\ state' = State.PAUSE
    /\ UNCHANGED << streak, score, best, waitUntil, cueMode, opp, flags, timers,
                    config, keyHeld, pressActed, resolved, opened >>

\* a slip in the opponent-fire callback: late is not set
EnemyTimerNoLate(tm) ==
    /\ Due(tm) /\ tm.kind = "enemy"
    /\ lastOp' = "enemy"
    /\ UNCHANGED << config, keyHeld, pressActed, pausedFrom, waitUntil, cueMode, opp, opened >>
    /\ IF state # State.CUE \/ playerShot
       THEN /\ timers' = timers \ {tm}
            /\ UNCHANGED << state, streak, score, best, flags, resolved >>
       ELSE /\ enemyShot' = TRUE
            /\ resolve(playerShot, TRUE, early, late, timeoutLoss, timers \ {tm})
            /\ UNCHANGED << playerShot, early, late, timeoutLoss >>

\* a slip in the opponent-fire callback: playerShot is not tested
EnemyTimerNoShotCheck(tm) ==
    /\ Due(tm) /\ tm.kind = "enemy"
    /\ lastOp' = "enemy"
    /\ UNCHANGED << config, keyHeld, pressActed, pausedFrom, waitUntil, cueMode, opp, opened >>
    /\ IF state # State.CUE
       THEN /\ timers' = timers \ {tm}
            /\ UNCHANGED << state, streak, score, best, flags, resolved >>
       ELSE /\ enemyShot' = TRUE
            /\ late' = TRUE
            /\ resolve(playerShot, TRUE, early, TRUE, timeoutLoss, timers \ {tm})
            /\ UNCHANGED << playerShot, early, timeoutLoss >>

\* the opponent-fire callback of openCue
EnemyTimer(tm) ==
    /\ Due(tm) /\ tm.kind = "enemy"
    /\ lastOp' = "enemy"
    /\ UNCHANGED << config, keyHeld, pressActed, pausedFrom, waitUntil, cueMode, opp, opened >>
    /\ IF state # State.CUE \/ playerShot
       THEN /\ timers' = timers \ {tm}
            /\ UNCHANGED << state, streak, score, best, flags, resolved >>
       ELSE /\ enemyShot' = TRUE
            /\ late' = TRUE
            /\ resolve(playerShot, TRUE, early, TRUE, timeoutLoss, timers \ {tm})
            /\ UNCHANGED << playerShot, early, timeoutLoss >>

\* a slip in the window-expiry callback: it records the loss as late
WindowTimerSetsLate(tm) ==
    /\ Due(tm) /\ tm.kind = "window"
    /\ lastOp' = "window"
    /\ UNCHANGED << config, keyHeld, pressActed, pausedFrom, waitUntil, cueMode, opp, opened >>
    /\ IF state # State.CUE \/ playerShot \/ enemyShot
       THEN /\ timers' = timers \ {tm}
            /\ UNCHANGED << state, streak, score, best, flags, resolved >>
       ELSE /\ late' = TRUE
            /\ resolve(playerShot, enemyShot, early, TRUE, timeoutLoss, timers \ {tm})
            /\ UNCHANGED << playerShot, enemyShot, early, timeoutLoss >>

\* the window-expiry callback of openCue
WindowTimer(tm) ==
    /\ Due(tm) /\ tm.kind = "window"
    /\ lastOp' = "window"
    /\ UNCHANGED << config, keyHeld, pressActed, pausedFrom, waitUntil, cueMode, opp, opened >>
    /\ IF state # State.CUE \/ playerShot \/ enemyShot
       THEN /\ timers' = timers \ {tm}
            /\ UNCHANGED << state, streak, score, best, flags, resolved >>
       ELSE /\ timeoutLoss' = TRUE
            /\ resolve(playerShot, enemyShot, early, late, TRUE, timers \ {tm})
            /\ UNCHANGED << playerShot, enemyShot, early, late >>

\* a slip in the win-transition callback: it returns while the engine is paused
BeginTimerSkipsPaused(tm) ==
    /\ Due(tm) /\ tm.kind = "begin"
    /\ lastOp' = "begin"
    /\ IF state = State.PAUSE
       THEN /\ timers' = timers \ {tm}
            /\ UNCHANGED << state, flags, waitUntil, cueMode, opp, resolved, opened >>
       ELSE beginRound(streak, timers \ {tm})
    /\ UNCHANGED << config, keyHeld, pressActed, pausedFrom, streak, score, best >>

\* the callback of setTimeout(beginRound, 620)
BeginTimer(tm) ==
    /\ Due(tm) /\ tm.kind = "begin"
    /\ lastOp' = "begin"
    /\ beginRound(streak, timers \ {tm})
    /\ UNCHANGED << config, keyHeld, pressActed, pausedFrom, streak, score, best >>

\* a slip in loop: the cue is opened whenever the wait is over, without the test
\* for State.WAIT
LoopNoWaitTest ==
    /\ IF state # State.PAUSE /\ waitUntil = 0
       THEN openCue /\ lastOp' = "loop"
       ELSE UNCHANGED << state, timers, opened, lastOp >>
    /\ UNCHANGED << pausedFrom, streak, score, best, waitUntil, cueMode, opp,
                    flags, config, keyHeld, pressActed, resolved >>

\* loop(t): one animation frame (world.update and the drawing touch no engine state)
Loop ==
    /\ IF state # State.PAUSE /\ state = State.WAIT /\ waitUntil = 0
       THEN openCue /\ lastOp' = "loop"
       ELSE UNCHANGED << state, timers, opened, lastOp >>
    /\ UNCHANGED << pausedFrom, streak, score, best, waitUntil, cueMode, opp,
                    flags, config, keyHeld, pressActed, resolved >>

\* the round is waiting for its cue (also while paused: waitUntil is a wall-clock
\* time, which a pause does not move)
Waiting == state = State.WAIT \/ (state = State.PAUSE /\ pausedFrom = State.WAIT)

\* time to the next instant at which a timer is due or the wait is over
NextDue ==
    LET S == { tm.left : tm \in timers } \cup
             (IF Waiting /\ waitUntil > 0 THEN {waitUntil} ELSE {})
    IN  IF S = {} THEN 0 ELSE CHOOSE m \in S : \A x \in S : m <= x

\* d ms pass; a due timer runs before time moves on
Advance(d) ==
    /\ d > 0
    /\ d <= NextDue
    /\ lastOp' = "advance"
    /\ timers' = { [tm EXCEPT !.left = tm.left - d] : tm \in timers }
    /\ waitUntil' = Max(0, waitUntil - d)
    /\ UNCHANGED << state, pausedFrom, streak, score, best, cueMode, opp, flags,
                    config, keyHeld, pressActed, resolved, opened >>

Init ==
    /\ \E c \in Configs : HARDCORE = c[1] /\ cueParam = c[2]
    /\ state = State.WAIT
    /\ pausedFrom = State.WAIT
    /\ streak = 0
    /\ score = 0
    /\ best \in 0 .. MaxBest
    /\ playerShot = FALSE /\ enemyShot = FALSE
    /\ early = FALSE /\ late = FALSE /\ timeoutLoss = FALSE
    /\ opp \in { oppProfile(0, k) : k \in R01 }
    /\ cueMode \in { chooseCueMode(HARDCORE, cueParam, k) : k \in R01 }
    /\ waitUntil \in { waitDelayMs(0, k) : k \in R01 }
    /\ timers = {}
    /\ keyHeld = FALSE
    /\ pressActed = FALSE
    /\ resolved = 0
    /\ opened = 0
    /\ lastOp = "start"

Next ==
    \/ PointerDown
    \/ KeyDown
    \/ KeyUp
    \/ Escape
    \/ \E tm \in timers : EnemyTimer(tm)
    \/ \E tm \in timers : WindowTimer(tm)
    \/ \E tm \in timers : BeginTimer(tm)
    \/ Loop
    \/ Advance(NextDue)
    \/ Advance(StepMs)

Spec == Init /\ [][Next]_vars

\* the engine started with ?hardcore=1 (cueMode, the one thing the URL parameters
\* decide, is read by the drawing only)
FairInit == Init /\ HARDCORE

\* the engine at the start of the round that follows a run of t wins (streak and
\* score are t, beginRound has just run), started with ?hardcore=1
TimingInit ==
    /\ HARDCORE = TRUE /\ cueParam = "rotate"
    /\ state = State.WAIT
    /\ pausedFrom = State.WAIT
    /\ \E t \in 0 .. MaxRun :
          /\ streak = t
          /\ score = t
          /\ opp \in { oppProfile(t, k) : k \in R01 }
          /\ waitUntil \in { waitDelayMs(t, k) : k \in R01 }
    /\ best \in 0 .. MaxBest
    /\ playerShot = FALSE /\ enemyShot = FALSE
    /\ early = FALSE /\ late = FALSE /\ timeoutLoss = FALSE
    /\ cueMode \in { chooseCueMode(HARDCORE, cueParam, k) : k \in R01 }
    /\ timers = {}
    /\ keyHeld = FALSE
    /\ pressActed = FALSE
    /\ resolved = 0
    /\ opened = 0
    /\ lastOp = "begin"

\* rounds at every streak up to MaxRun (a run longer than MaxStreak is not
\* extended: resolve's bound stops the wins)
TimingSpec == TimingInit /\ [][Next]_vars

\* the browser's clock does not stop, and a setTimeout callback that is due is run
FairSpec ==
    /\ FairInit
    /\ [][Next]_vars
    /\ WF_vars(Advance(NextDue))
    /\ WF_vars(\E tm \in timers : EnemyTimer(tm))
    /\ WF_vars(\E tm \in timers : WindowTimer(tm))
    /\ WF_vars(\E tm \in timers : BeginTimer(tm))

----------------------------------------------------------------------------
(* Vocabulary of the properties *)

\* the handlers that call handleFire: a pointer event or the first keydown of a
\* press ("fire"), a repeated keydown of a held key ("repeat")
FireOps == {"fire", "repeat"}

\* the callback of a timer of this kind, scheduled gen rounds ago, has just run
Fired(kind, gen) ==
    /\ lastOp' = kind
    /\ \E tm \in timers \ timers' : tm.kind = kind /\ tm.gen = gen

\* the current round was resolved as a win (the flags keep the outcome until
\* the next beginRound)
Won == resolved >= 1 /\ Win(playerShot, enemyShot, early, late, timeoutLoss)

\* a timer of the current round is pending
Pending(kind) == \E tm \in timers : tm.kind = kind /\ tm.gen = 0

\* a round is lost by this step
LossStep == state \in {State.WAIT, State.CUE} /\ state' = State.DEAD

----------------------------------------------------------------------------
(* C1: handleFire in WAIT resolves the round at once as a loss: early and  *)
(* playerShot are set, the state becomes DEAD, and streak and score are    *)
(* not incremented.                                                        *)
C1_EarlyFireLoses ==
    [][ (lastOp' \in FireOps /\ state = State.WAIT)
          => /\ early' /\ playerShot'
             /\ state' = State.DEAD
             /\ streak' = streak /\ score' = score ]_vars

\* an early fire has lost a round that followed at least one win
C1_Witness ==
    lastOp = "fire" /\ state = State.DEAD /\ early /\ playerShot /\ streak >= 1

(* C2: the first fire of a round, delivered in CUE while the opponent      *)
(* timer and the window timer of the round are both still pending, wins:   *)
(* streak and score go up by exactly 1, the state does not become DEAD,    *)
(* and for the rest of the round they are not incremented again and the    *)
(* state never becomes DEAD.                                               *)
C2_FirstFireWins ==
    [][ /\ (/\ lastOp' \in FireOps /\ state = State.CUE /\ ~playerShot
            /\ Pending("enemy") /\ Pending("window"))
           => /\ streak' = streak + 1 /\ score' = score + 1
              /\ state' # State.DEAD
        /\ (Won /\ resolved' # 0)
           => /\ streak' = streak /\ score' = score
              /\ state' # State.DEAD ]_vars

\* the round was just won by a fire that beat both timers
C2_Witness ==
    /\ lastOp = "fire" /\ Won /\ state = State.CUE
    /\ Pending("enemy") /\ Pending("window") /\ streak >= 1

(* C3: a round is resolved at most once: resolve() runs at most once       *)
(* between two beginRound calls, and once it has run no fire, timer        *)
(* callback, frame or pause toggle changes the round's flags, streak,      *)
(* score or best, or turns a won round into DEAD.                          *)
C3_ResolvedOnce ==
    [][ /\ resolved' <= 1
        /\ (resolved >= 1 /\ resolved' # 0)
           => /\ UNCHANGED << flags, streak, score, best >>
              /\ (Won => state' # State.DEAD) ]_vars

\* a timer callback of the round ran after the round was won
C3_Witness ==
    /\ Won /\ lastOp \in {"enemy", "window"}
    /\ state = State.CUE /\ Pending("begin")

(* C4: when the opponent timer of the round elapses before the player has  *)
(* fired (the round still unresolved), the round is lost with enemyShot    *)
(* and late set and the state DEAD; a fire after that neither wins the     *)
(* round nor increments streak or score.                                   *)
C4_EnemyTimerLoses ==
    [][ /\ (Fired("enemy", 0) /\ ~playerShot /\ resolved = 0)
           => enemyShot' /\ late' /\ state' = State.DEAD
        /\ (lastOp' \in FireOps /\ enemyShot)
           => streak' <= streak /\ score' <= score /\ ~Won' ]_vars

(* C5: when the window timer of the round elapses and neither the player   *)
(* nor the opponent has fired, the round is lost with timeoutLoss set and  *)
(* the state DEAD.                                                         *)
C5_WindowTimerLoses ==
    [][ (Fired("window", 0) /\ ~playerShot /\ ~enemyShot)
          => timeoutLoss' /\ state' = State.DEAD ]_vars

(* C6: a fire in DEAD sets streak and score to 0 and starts a fresh round: *)
(* the state is WAIT, all five flags are false, and best is unchanged.     *)
C6_RestartFromDead ==
    [][ (lastOp' \in FireOps /\ state = State.DEAD)
          => /\ streak' = 0 /\ score' = 0
             /\ state' = State.WAIT
             /\ ~playerShot' /\ ~enemyShot' /\ ~early' /\ ~late' /\ ~timeoutLoss'
             /\ best' = best ]_vars

\* a run that reached the explored maximum was lost and restarted
C6_Witness ==
    /\ lastOp = "fire" /\ state = State.WAIT
    /\ streak = 0 /\ score = 0 /\ best = MaxStreak

(* C7: best never decreases; a step that loses a round leaves best at the  *)
(* maximum of the old best and the score; no other step writes best.       *)
C7_BestMonotonic ==
    [][ /\ best' >= best
        /\ LossStep => best' = Max(best, score)
        /\ best' # best => LossStep ]_vars

\* a loss raised best above the stored value, to the score of the lost run
C7_Witness ==
    state = State.DEAD /\ resolved = 1 /\ score > MaxBest /\ best = score

(* C8: the callback of an opponent or window timer scheduled in an earlier *)
(* round changes nothing of the engine: not the state, the flags, streak,  *)
(* score or best, and it does not call resolve.                            *)
C8_StaleTimerInert ==
    [][ (Fired("enemy", 1) \/ Fired("window", 1))
          => UNCHANGED << state, pausedFrom, flags, streak, score, best, resolved >>
        ]_vars

\* a window callback has run in a round whose cue has not opened: it was
\* scheduled by an earlier round
C8_Witness ==
    /\ lastOp = "window" /\ state = State.WAIT /\ resolved = 0
    /\ ~Pending("window")

(* C9: pausing loses no pending timer: no opponent or window callback runs *)
(* while the state is PAUSE, and in an open cue that is not yet resolved   *)
(* an opponent or window timer of the round is still pending, so that a    *)
(* player who never fires loses the round.                                 *)
C9_PauseKeepsTimers ==
    [][ /\ state = State.PAUSE => lastOp' \notin {"enemy", "window"}
        /\ (state' = State.CUE /\ resolved' = 0)
           => (Pending("enemy")' \/ Pending("window")') ]_vars

(* C10: PAUSE is entered and left only by the Escape toggle: in PAUSE no   *)
(* timer callback and no frame changes the state, and the toggle restores  *)
(* the state that was active when the pause began.                         *)
C10_PauseOnlyByToggle ==
    [][ /\ (state # State.PAUSE /\ state' = State.PAUSE) => lastOp' = "escape"
        /\ (state = State.PAUSE /\ state' # State.PAUSE)
           => lastOp' = "escape" /\ state' = pausedFrom
        /\ (state = State.PAUSE /\ lastOp' # "escape")
           => state' = State.PAUSE /\ pausedFrom' = pausedFrom ]_vars

(* C11: the player's fire and the opponent's timer are ready at the same   *)
(* instant of an open, unresolved cue.  As claimed: the round is lost      *)
(* whichever of the two is processed first.                                *)
Tie ==
    /\ state = State.CUE /\ ~playerShot /\ resolved = 0
    /\ \E tm \in timers : tm.kind = "enemy" /\ tm.gen = 0 /\ tm.left = 0

C11_OpponentWinsTies ==
    [][ (Tie /\ (lastOp' \in FireOps \/ lastOp' = "enemy"))
          => state' = State.DEAD /\ ~Won' ]_vars

(* C11, amended: at a tie the event processed first decides.  If the       *)
(* opponent callback runs first the round is lost with enemyShot and late  *)
(* and the state DEAD; if the fire is processed first the round is won,    *)
(* streak and score go up by 1, and the opponent callback is still pending.*)
C11_FirstProcessedDecides ==
    [][ /\ (Tie /\ lastOp' = "enemy")
           => enemyShot' /\ late' /\ state' = State.DEAD /\ ~Won'
        /\ (Tie /\ lastOp' \in FireOps)
           => /\ Won' /\ state' = State.CUE
              /\ streak' = streak + 1 /\ score' = score + 1
              /\ ~enemyShot' /\ ~late' ]_vars

\* the fire was processed first at a tie: the round is won while the opponent
\* callback is due
C11_Witness ==
    /\ lastOp = "fire" /\ Won /\ state = State.CUE
    /\ \E tm \in timers : tm.kind = "enemy" /\ tm.gen = 0 /\ tm.left = 0

(* C12: a fire is a complete no-op while the state is PAUSE, and in CUE    *)
(* once the player has fired (which is the whole interval from a win to    *)
(* the next beginRound): state, streak, score, best, the five flags, the   *)
(* timers and the round's resolution are unchanged.                        *)
C12_IgnoredFire ==
    [][ (/\ lastOp' \in FireOps
         /\ (state = State.PAUSE \/ (state = State.CUE /\ playerShot)))
          => UNCHANGED << state, pausedFrom, streak, score, best, flags, timers,
                          waitUntil, cueMode, opp, resolved, opened >> ]_vars

\* a repeated keydown arrived after the win, while the win transition was
\* under way, and left the won round as it was
C12_Witness ==
    /\ lastOp = "repeat" /\ Won /\ state = State.CUE
    /\ \E tm \in timers : tm.kind = "begin" /\ tm.left < WinDelayMs

\* the pending callbacks of setTimeout(beginRound, 620)
BeginTimers == { tm \in timers : tm.kind = "begin" }

\* beginRound has just run: a fresh round
Fresh ==
    /\ state = State.WAIT /\ resolved = 0 /\ opened = 0
    /\ ~playerShot /\ ~enemyShot /\ ~early /\ ~late /\ ~timeoutLoss

(* C13: after every win the next round starts: while the round is won      *)
(* exactly one beginRound callback is pending (and none otherwise), no     *)
(* fire or pause toggle ends the won round, the callback ends it in a      *)
(* fresh WAIT round with streak and score as incremented by the win, and   *)
(* that happens eventually.                                                *)
C13_WinStartsNextRound ==
    /\ [](Cardinality(BeginTimers) = (IF Won THEN 1 ELSE 0))
    /\ [][ (Won /\ ~Won')
             => /\ lastOp' = "begin"
                /\ Fresh'
                /\ streak' = streak /\ score' = score /\ streak' >= 1 ]_vars
    /\ Won ~> Fresh

\* the round after a win has begun, with the win counted
C13_Witness ==
    lastOp = "begin" /\ Fresh /\ streak >= 1 /\ score = streak /\ BeginTimers = {}

(* C14: openCue runs at most once between two beginRound calls, pauses     *)
(* included, and only when the state is WAIT; resolve runs only when the   *)
(* state is WAIT (the early fire) or CUE.                                  *)
C14_CueOpensOnce ==
    [][ /\ opened' <= 1
        /\ opened' > opened => (state = State.WAIT /\ state' = State.CUE)
        /\ resolved' > resolved
           => \/ state = State.WAIT /\ early' /\ opened = 0
              \/ state = State.CUE /\ opened = 1 ]_vars

\* the engine was paused in an open cue and resumed, and the cue was not
\* opened a second time
C14_Witness ==
    /\ lastOp = "escape" /\ state = State.CUE /\ pausedFrom = State.CUE
    /\ opened = 1 /\ resolved = 0

\* what handleFire can change
engine == << state, pausedFrom, streak, score, best, flags, timers, waitUntil,
             cueMode, opp, resolved, opened >>

(* C16: one press-and-hold of a fire key makes handleFire take effect at   *)
(* most once: when a keydown of the press has already changed the engine,  *)
(* the keydown events repeated while the key stays down change nothing.    *)
(* (A touch is one touchstart: its handler calls preventDefault, so no     *)
(* emulated mouse event follows.)                                          *)
C16_FireDebounced ==
    [][ (lastOp' = "repeat" /\ keyHeld /\ pressActed) => UNCHANGED engine ]_vars

(* C17: a value of ?cue= that is none of text, bell, glyph, none, rotate   *)
(* gives every round the cue that cue=rotate would give it for the same    *)
(* draw (and none in hardcore mode).                                       *)
C17_MalformedCueIsRotate ==
    cueParam \notin (cueModes \cup {"rotate"})
      => \A k \in R01 :
            chooseCueMode(HARDCORE, cueParam, k) = chooseCueMode(HARDCORE, "rotate", k)

(* C18: when the cue opens, the window timer is set to                     *)
(* reactionWindowMs(streak) for the streak of that moment, which is at     *)
(* least 85 and not below reactionWindowMs(streak + 1).                    *)
C18_WindowShrinksToFloor ==
    [][ opened' > opened
          => \E tm \in timers' \ timers :
                /\ tm.kind = "window" /\ tm.gen = 0
                /\ tm.left = reactionWindowMs(streak)
                /\ tm.left >= 85
                /\ tm.left <= 220 - 10 * Min(streak, 13)
                /\ reactionWindowMs(streak + 1) <= tm.left ]_vars

\* a cue opened after a run long enough for the window to be at its floor
C18_Witness ==
    /\ state = State.CUE /\ lastOp = "loop" /\ streak >= 14
    /\ \E tm \in timers : tm.kind = "window" /\ tm.gen = 0 /\ tm.left = 85

\* the round is lost: DEAD, or paused from DEAD
Dead == state = State.DEAD \/ (state = State.PAUSE /\ pausedFrom = State.DEAD)

\* the number of loss causes that are set
LossCauses ==
    (IF early THEN 1 ELSE 0) + (IF late THEN 1 ELSE 0) + (IF timeoutLoss THEN 1 ELSE 0)

(* C19: while the round is lost (DEAD, or paused from DEAD) exactly one of  *)
(* early, late, timeoutLoss is set; enemyShot is set exactly when late is;  *)
(* early is set only in a round whose cue never opened; and in WAIT none    *)
(* of the five flags is set.                                                *)
C19_OneLossCause ==
    /\ Dead => LossCauses = 1
    /\ enemyShot <=> late
    /\ early => opened = 0
    /\ state = State.WAIT
         => ~playerShot /\ ~enemyShot /\ ~early /\ ~late /\ ~timeoutLoss

\* a round lost by the window running out, paused afterwards
C19_Witness ==
    /\ state = State.PAUSE /\ pausedFrom = State.DEAD
    /\ timeoutLoss /\ ~enemyShot /\ ~playerShot /\ opened = 1

(* C20: streak and score are equal, both 0 at the start; they change only   *)
(* together, by one on a win or to 0 by the fire that restarts from DEAD,   *)
(* and no step into or within DEAD changes them.                            *)
C20_StreakIsScore ==
    /\ streak = 0 /\ score = 0
    /\ [](streak = score)
    /\ [][ (streak' # streak \/ score' # score)
             => \/ /\ streak' = streak + 1 /\ score' = score + 1
                   /\ ~Won /\ Won' /\ resolved' > resolved
                \/ /\ streak' = 0 /\ score' = 0
                   /\ state = State.DEAD /\ lastOp' \in FireOps ]_vars
    /\ [][ state' = State.DEAD => streak' = streak /\ score' = score ]_vars

\* a run of wins was lost: the state is DEAD and the run's value is still shown
C20_Witness ==
    /\ state = State.DEAD /\ streak = score /\ streak >= 1 /\ resolved >= 1

====
